---- MODULE Spec2Model ----
(***************************************************************************)
(* Model of modul_12.py: Field/Phone/Birthday validation, Record (phones   *)
(* of one contact), AddressBook (insertion-ordered mapping name -> Record, *)
(* find, delete, batched iterator, pickle dump/load).                      *)
(*                                                                         *)
(* Strings are sequences of one-character strings.  Record objects live in *)
(* `heap` (a Record is referred to by its index), so that the mapping, a   *)
(* generator's snapshot and the caller all share the same objects.         *)
(***************************************************************************)
EXTENDS Integers, Sequences, FiniteSets, TLC

VARIABLES
    heap,       \* the Record objects constructed so far, by reference
    record_id,  \* AddressBook.record_id
    data,       \* AddressBook.data: insertion-ordered <<[key, rid]>>
    file,       \* the pickle file's content; <<>> when the file does not exist
    gen,        \* the generator object returned by the latest iterator() call
    last,       \* the latest call: its name, arguments, error and return value
    atCall,     \* history: list(data.values()) when iterator() was called
    touched,    \* history: the mapping changed since iterator() was called
    dumped      \* history: the book (by value) when dump() last ran

vars == <<heap, record_id, data, file, gen, last, atCall, touched, dumped>>

----------------------------------------------------------------------------
(* Bounds of the model *)

MaxPhones == 2
MaxRecords == 2
MaxIterRecords == 3
MaxRecordId == 4
MaxBatch == 3

----------------------------------------------------------------------------
(* Strings *)

Digits == {"0", "1", "2", "3", "4", "5", "6", "7", "8", "9"}

UpperChars == <<"A", "B", "C", "D", "E", "F", "G", "H", "I", "J", "K", "L", "M",
                "N", "O", "P", "Q", "R", "S", "T", "U", "V", "W", "X", "Y", "Z">>

LowerChars == <<"a", "b", "c", "d", "e", "f", "g", "h", "i", "j", "k", "l", "m",
                "n", "o", "p", "q", "r", "s", "t", "u", "v", "w", "x", "y", "z">>

LowerChar(c) ==
    IF \E i \in 1..Len(UpperChars) : UpperChars[i] = c
    THEN LowerChars[CHOOSE i \in 1..Len(UpperChars) : UpperChars[i] = c]
    ELSE c

\* str.lower()
lower(s) == [i \in 1..Len(s) |-> LowerChar(s[i])]

\* q in s, for strings
IsSubstring(q, s) ==
    \E i \in 0..(Len(s) - Len(q)) : SubSeq(s, i + 1, i + Len(q)) = q

\* x in xs, for lists
Contains(xs, x) == \E i \in 1..Len(xs) : xs[i] = x

\* xs[i:j], 0-based, clipped to the list as Python's slices are
Slice(xs, i, j) == SubSeq(xs, i + 1, IF j < Len(xs) THEN j ELSE Len(xs))

----------------------------------------------------------------------------
(* Field hierarchy *)

\* str.isdigit() over the characters the model draws from
IsDigit(c) == c \in Digits

is_valid_phone_any10(value) == Len(value) = 10

is_valid_phone(value) ==
    Len(value) = 10 /\ \A i \in 1..Len(value) : IsDigit(value[i])

IsLeap(y) == (y % 4 = 0 /\ y % 100 # 0) \/ y % 400 = 0

DaysIn(y, m) ==
    IF m = 2 THEN (IF IsLeap(y) THEN 29 ELSE 28)
    ELSE IF m \in {4, 6, 9, 11} THEN 30 ELSE 31

\* Birthday's setter: strptime(value, '%Y-%m-%d') accepts the value.  A date
\* argument is the <<year, month, day>> its three fields read as.
is_valid_birthday(b) ==
    /\ Len(b) = 3
    /\ b[1] \in 1..9999
    /\ b[2] \in 1..12
    /\ b[3] \in 1..DaysIn(b[1], b[2])

----------------------------------------------------------------------------
(* Record: pure results of its methods on the list of phone values.        *)
(* Each returns [err, phones]: the error raised ("None" when the call      *)
(* returns) and the list afterwards.                                       *)

add_phone_nodupcheck(phones, n) ==
    IF ~is_valid_phone(n)
    THEN [err |-> "InvalidValue", phones |-> phones]
    ELSE [err |-> "None", phones |-> Append(phones, n)]

add_phone(phones, n) ==
    IF ~is_valid_phone(n)
    THEN [err |-> "InvalidValue", phones |-> phones]
    ELSE IF ~Contains(phones, n)
    THEN [err |-> "None", phones |-> Append(phones, n)]
    ELSE [err |-> "DuplicatePhone", phones |-> phones]

\* The Phone found (as a list of one value), or <<>> for None
find_phone(phones, n) ==
    IF Contains(phones, n) THEN <<n>> ELSE <<>>

\* The position of the first Phone with value n (find_phone returns that object)
IndexOf(phones, n) ==
    CHOOSE i \in 1..Len(phones) :
        phones[i] = n /\ \A j \in 1..(i - 1) : phones[j] # n

edit_phone_nodupcheck(phones, old, new) ==
    IF find_phone(phones, old) = <<>>
    THEN [err |-> "NotFound", phones |-> phones]
    ELSE IF ~is_valid_phone(new)
    THEN [err |-> "InvalidValue", phones |-> phones]
    ELSE [err |-> "None",
          phones |-> [phones EXCEPT ![IndexOf(phones, old)] = new]]

edit_phone_validate_first(phones, old, new) ==
    IF ~is_valid_phone(new)
    THEN [err |-> "InvalidValue", phones |-> phones]
    ELSE IF find_phone(phones, old) = <<>>
    THEN [err |-> "NotFound", phones |-> phones]
    ELSE IF ~Contains(phones, new)
    THEN [err |-> "None",
          phones |-> [phones EXCEPT ![IndexOf(phones, old)] = new]]
    ELSE [err |-> "DuplicatePhone", phones |-> phones]

edit_phone_reappend(phones, old, new) ==
    IF find_phone(phones, old) = <<>>
    THEN [err |-> "NotFound", phones |-> phones]
    ELSE IF ~is_valid_phone(new)
    THEN [err |-> "InvalidValue", phones |-> phones]
    ELSE IF ~Contains(phones, new)
    THEN [err |-> "None",
          phones |-> Append(SubSeq(phones, 1, IndexOf(phones, old) - 1)
                            \o SubSeq(phones, IndexOf(phones, old) + 1, Len(phones)),
                            new)]
    ELSE [err |-> "DuplicatePhone", phones |-> phones]

edit_phone(phones, old, new) ==
    IF find_phone(phones, old) = <<>>
    THEN [err |-> "NotFound", phones |-> phones]
    ELSE IF ~is_valid_phone(new)
    THEN [err |-> "InvalidValue", phones |-> phones]
    ELSE IF ~Contains(phones, new)
    THEN [err |-> "None",
          phones |-> [phones EXCEPT ![IndexOf(phones, old)] = new]]
    ELSE [err |-> "DuplicatePhone", phones |-> phones]

remove_phone(phones, n) ==
    IF find_phone(phones, n) = <<>>
    THEN [err |-> "NotFound", phones |-> phones]
    ELSE [err |-> "None",
          phones |-> SubSeq(phones, 1, IndexOf(phones, n) - 1)
                     \o SubSeq(phones, IndexOf(phones, n) + 1, Len(phones))]

\* Record.__init__'s loop: add_phone for each number; the first error ends it
RECURSIVE add_all(_, _)
add_all(phones, nums) ==
    IF nums = <<>> THEN [err |-> "None", phones |-> phones]
    ELSE LET r == add_phone(phones, Head(nums))
         IN IF r.err # "None" THEN r ELSE add_all(r.phones, Tail(nums))

----------------------------------------------------------------------------
(* The call log *)

NoCall == [op |-> "", rid |-> 0, a1 |-> <<>>, a2 |-> <<>>,
           err |-> "None", phone |-> <<>>, recs |-> <<>>]

NoGen == [st |-> "none", bs |-> 0, records |-> <<>>, i |-> 0, out |-> <<>>]

NoDump == [record_id |-> 0, book |-> <<>>]

Init ==
    /\ heap = <<>>
    /\ record_id = 1
    /\ data = <<>>
    /\ file = <<>>
    /\ gen = NoGen
    /\ last = [NoCall EXCEPT !.op = "AddressBook"]
    /\ atCall = <<>>
    /\ touched = FALSE
    /\ dumped = NoDump

----------------------------------------------------------------------------
(* Record: the calls *)

\* Record(name, phone_numbers, birthday); at most `limit` objects are made
NewRecord(limit, name, nums, bday) ==
    /\ Len(heap) < limit
    /\ LET badBirthday == bday # <<>> /\ ~is_valid_birthday(bday)
           r == add_all(<<>>, nums)
           err == IF badBirthday THEN "InvalidValue" ELSE r.err
       IN /\ heap' = IF err = "None"
                     THEN Append(heap, [name |-> name, phones |-> r.phones,
                                        birthday |-> bday])
                     ELSE heap
          /\ last' = [NoCall EXCEPT !.op = "Record", !.a1 = name, !.err = err,
                                    !.rid = IF err = "None" THEN Len(heap) + 1 ELSE 0]
    /\ UNCHANGED <<record_id, data, file, gen, atCall, touched, dumped>>

AddPhone(r, n) ==
    /\ r \in 1..Len(heap)
    /\ LET res == add_phone(heap[r].phones, n)
       IN /\ Len(res.phones) <= MaxPhones
          /\ heap' = [heap EXCEPT ![r].phones = res.phones]
          /\ last' = [NoCall EXCEPT !.op = "add_phone", !.rid = r, !.a1 = n,
                                    !.err = res.err]
    /\ UNCHANGED <<record_id, data, file, gen, atCall, touched, dumped>>

FindPhone(r, n) ==
    /\ r \in 1..Len(heap)
    /\ last' = [NoCall EXCEPT !.op = "find_phone", !.rid = r, !.a1 = n,
                              !.phone = find_phone(heap[r].phones, n)]
    /\ UNCHANGED <<heap, record_id, data, file, gen, atCall, touched, dumped>>

EditPhone(r, old, new) ==
    /\ r \in 1..Len(heap)
    /\ LET res == edit_phone(heap[r].phones, old, new)
       IN /\ heap' = [heap EXCEPT ![r].phones = res.phones]
          /\ last' = [NoCall EXCEPT !.op = "edit_phone", !.rid = r, !.a1 = old,
                                    !.a2 = new, !.err = res.err]
    /\ UNCHANGED <<record_id, data, file, gen, atCall, touched, dumped>>

RemovePhone(r, n) ==
    /\ r \in 1..Len(heap)
    /\ LET res == remove_phone(heap[r].phones, n)
       IN /\ heap' = [heap EXCEPT ![r].phones = res.phones]
          /\ last' = [NoCall EXCEPT !.op = "remove_phone", !.rid = r, !.a1 = n,
                                    !.err = res.err]
    /\ UNCHANGED <<record_id, data, file, gen, atCall, touched, dumped>>

----------------------------------------------------------------------------
(* Arguments the calls are tried with *)

PA == <<"1", "2", "3", "4", "5", "6", "7", "8", "9", "0">>
PB == <<"9", "9", "9", "9", "9", "9", "9", "9", "9", "9">>
PC == <<"5", "5", "5", "5", "5", "5", "5", "5", "5", "5">>
Bad9 == <<"1", "2", "3", "4", "5", "6", "7", "8", "9">>
Bad11 == <<"1", "2", "3", "4", "5", "6", "7", "8", "9", "0", "1">>
BadAlpha == <<"1", "2", "3", "4", "5", "a", "b", "c", "d", "e">>

PhoneArgs == {PA, PB, PC, Bad9, Bad11, BadAlpha}

NameJo == <<"J", "o">>
NameAl == <<"A", "l">>

NoDate == <<>>
DateOk == <<1990, 5, 15>>
DateBadMonth == <<1990, 13, 1>>
DateBadDay == <<2001, 2, 29>>

----------------------------------------------------------------------------
(* One Record and every call on it *)

NextRecord ==
    \/ \E nums \in {<<>>, <<PA>>, <<PA, PB>>, <<PA, PA>>, <<PB, Bad9>>},
          bday \in {NoDate, DateOk, DateBadMonth, DateBadDay} :
          NewRecord(1, NameJo, nums, bday)
    \/ \E n \in PhoneArgs : AddPhone(1, n)
    \/ \E n \in PhoneArgs : FindPhone(1, n)
    \/ \E old \in PhoneArgs, new \in PhoneArgs : EditPhone(1, old, new)
    \/ \E n \in PhoneArgs : RemovePhone(1, n)

SpecRecord == Init /\ [][NextRecord]_vars

----------------------------------------------------------------------------
(* AddressBook: the mapping *)

HasKey(d, k) == \E i \in 1..Len(d) : d[i].key = k

KeyIndex(d, k) == CHOOSE i \in 1..Len(d) : d[i].key = k

\* list(self.data.values())
Values(d) == [i \in 1..Len(d) |-> d[i].rid]

\* self.data[key] = r: a key already present keeps its place in the order
set_item(d, k, r) ==
    IF HasKey(d, k)
    THEN [d EXCEPT ![KeyIndex(d, k)].rid = r]
    ELSE Append(d, [key |-> k, rid |-> r])

\* del self.data[k]
del_item(d, k) ==
    SubSeq(d, 1, KeyIndex(d, k) - 1) \o SubSeq(d, KeyIndex(d, k) + 1, Len(d))

\* find's inner loop: the record once for every phone that contains the query
RECURSIVE phone_hits(_, _, _)
phone_hits(phones, rid, q) ==
    IF phones = <<>> THEN <<>>
    ELSE (IF IsSubstring(q, Head(phones)) THEN <<rid>> ELSE <<>>)
         \o phone_hits(Tail(phones), rid, q)

record_hits_once(rec, rid, q) ==
    IF IsSubstring(lower(q), lower(rec.name)) \/ phone_hits(rec.phones, rid, q) # <<>>
    THEN <<rid>> ELSE <<>>

record_hits_case_sensitive(rec, rid, q) ==
    (IF IsSubstring(q, rec.name) THEN <<rid>> ELSE <<>>)
    \o phone_hits(rec.phones, rid, q)

\* find's loop body for one record
record_hits(rec, rid, q) ==
    (IF IsSubstring(lower(q), lower(rec.name)) THEN <<rid>> ELSE <<>>)
    \o phone_hits(rec.phones, rid, q)

RECURSIVE find(_, _, _)
find(d, h, q) ==
    IF d = <<>> THEN <<>>
    ELSE record_hits(h[Head(d).rid], Head(d).rid, q) \o find(Tail(d), h, q)

AddRecord(r) ==
    /\ r \in 1..Len(heap)
    /\ record_id < MaxRecordId
    /\ data' = set_item(data, heap[r].name, r)
    /\ record_id' = record_id + 1
    /\ touched' = (touched \/ data' # data)
    /\ last' = [NoCall EXCEPT !.op = "add_record", !.rid = r]
    /\ UNCHANGED <<heap, file, gen, atCall, dumped>>

Delete(name) ==
    /\ data' = IF HasKey(data, name) THEN del_item(data, name) ELSE data
    /\ touched' = (touched \/ data' # data)
    /\ last' = [NoCall EXCEPT !.op = "delete"]
    /\ UNCHANGED <<heap, record_id, file, gen, atCall, dumped>>

Find(q) ==
    /\ last' = [NoCall EXCEPT !.op = "find", !.a1 = q, !.recs = find(data, heap, q)]
    /\ UNCHANGED <<heap, record_id, data, file, gen, atCall, touched, dumped>>

----------------------------------------------------------------------------
(* AddressBook.iterator: a generator.  Calling iterator() only makes the    *)
(* generator object; its body starts to run at the first next().           *)

iterator(bs) == [st |-> "created", bs |-> bs, records |-> <<>>, i |-> 0, out |-> <<>>]

\* One batch: records[i:i + batch_size]
batch_drop_short(records, i, bs) ==
    IF i + bs <= Len(records) THEN Slice(records, i, i + bs) ELSE <<>>

batch(records, i, bs) == Slice(records, i, i + bs)

\* The generator after next(): it runs from where it is suspended to the next
\* yield, or to its end.  d is the mapping as it is when next() is called.
gen_next(g, d) ==
    LET fresh == g.st = "created"
        records == IF fresh THEN Values(d) ELSE g.records
        i == IF fresh THEN 0 ELSE g.i + g.bs
    IN IF g.st = "done" THEN g
       ELSE IF i < Len(records)
       THEN [g EXCEPT !.st = "running", !.records = records, !.i = i,
                      !.out = Append(g.out, batch(records, i, g.bs))]
       ELSE [g EXCEPT !.st = "done", !.records = records, !.i = i]

Iterator(bs) ==
    /\ gen' = iterator(bs)
    /\ atCall' = Values(data)
    /\ touched' = FALSE
    /\ last' = [NoCall EXCEPT !.op = "iterator"]
    /\ UNCHANGED <<heap, record_id, data, file, dumped>>

GenNext ==
    /\ gen.st # "none"
    /\ gen' = gen_next(gen, data)
    /\ last' = IF gen'.st = "done"
               THEN [NoCall EXCEPT !.op = "next", !.err = "StopIteration"]
               ELSE [NoCall EXCEPT !.op = "next", !.recs = gen'.out[Len(gen'.out)]]
    /\ UNCHANGED <<heap, record_id, data, file, atCall, touched, dumped>>

----------------------------------------------------------------------------
(* Persistence.  pickle.dump writes the tuple (record_id, data) as a flat   *)
(* stream: the counter, the number of items, and per item the key and the  *)
(* Record (name, birthday, number of phones, the phones); pickle.load      *)
(* reads the stream back and builds new objects.                           *)

pickle_record(rec) ==
    <<rec.name, rec.birthday, Len(rec.phones)>> \o rec.phones

RECURSIVE pickle_items(_, _)
pickle_items(d, h) ==
    IF d = <<>> THEN <<>>
    ELSE <<Head(d).key>> \o pickle_record(h[Head(d).rid]) \o pickle_items(Tail(d), h)

pickle_dump_no_counter(id, d, h) == <<1, Len(d)>> \o pickle_items(d, h)

pickle_dump(id, d, h) == <<id, Len(d)>> \o pickle_items(d, h)

\* Reads k items of stream b from position pos on, after those in acc
RECURSIVE unpickle_items(_, _, _, _)
unpickle_items(b, pos, k, acc) ==
    IF k = 0 THEN acc
    ELSE LET np == b[pos + 3]
             rec == [name |-> b[pos + 1],
                     phones |-> SubSeq(b, pos + 4, pos + 3 + np),
                     birthday |-> b[pos + 2]]
         IN unpickle_items(b, pos + 4 + np, k - 1,
                [heap |-> Append(acc.heap, rec),
                 data |-> Append(acc.data,
                                 [key |-> b[pos], rid |-> Len(acc.heap) + 1])])

pickle_load(b) ==
    LET items == unpickle_items(b, 3, b[2], [heap |-> <<>>, data |-> <<>>])
    IN [record_id |-> b[1], data |-> items.data, heap |-> items.heap]

\* The mapping by value: per item its key and the Record's fields
BookView(d, h) ==
    [i \in 1..Len(d) |-> [key |-> d[i].key, name |-> h[d[i].rid].name,
                          phones |-> h[d[i].rid].phones,
                          birthday |-> h[d[i].rid].birthday]]

Dump ==
    /\ file' = pickle_dump(record_id, data, heap)
    /\ dumped' = [record_id |-> record_id, book |-> BookView(data, heap)]
    /\ last' = [NoCall EXCEPT !.op = "dump"]
    /\ UNCHANGED <<heap, record_id, data, gen, atCall, touched>>

\* The program is run again: AddressBook(file) starts from record_id = 1 and
\* an empty mapping, and load() replaces both when the file exists.  The
\* objects of the earlier run are gone.
Construct ==
    /\ IF Len(file) = 0
       THEN /\ record_id' = 1
            /\ data' = <<>>
            /\ heap' = <<>>
       ELSE LET l == pickle_load(file)
            IN /\ record_id' = l.record_id
               /\ data' = l.data
               /\ heap' = l.heap
    /\ gen' = NoGen
    /\ atCall' = <<>>
    /\ touched' = FALSE
    /\ last' = [NoCall EXCEPT !.op = "AddressBook"]
    /\ UNCHANGED <<file, dumped>>

----------------------------------------------------------------------------
(* A book of records without phones, and generators over it *)

\* The names "n1", "n2", ...: as many as the book is to hold records.  One
\* more Record than that is made, so that the last has the first one's name.
IterName(k) ==
    <<"n", <<"1", "2", "3", "4", "5", "6", "7", "8", "9">>[((k - 1) % MaxIterRecords) + 1]>>

NextIter ==
    \/ NewRecord(MaxIterRecords + 1, IterName(Len(heap) + 1), <<>>, NoDate)
    \/ \E r \in 1..(MaxIterRecords + 1) : AddRecord(r)
    \/ \E k \in 1..MaxIterRecords : Delete(IterName(k))
    \/ \E bs \in 1..MaxBatch : Iterator(bs)
    \/ GenNext

SpecIter == Init /\ [][NextIter]_vars

(* A book of records with phones, and searches in it *)

QJo == <<"j", "O">>
QL == <<"L">>
Q9 == <<"9">>
Q999 == <<"9", "9", "9">>
Q123 == <<"1", "2", "3">>
QEmpty == <<>>
QNone == <<"x">>

Queries == {QJo, QL, Q9, Q999, Q123, QEmpty, QNone}

NextFind ==
    \/ \E name \in {NameJo, NameAl}, nums \in {<<>>, <<PA>>, <<PB>>, <<PA, PB>>} :
          NewRecord(MaxRecords, name, nums, NoDate)
    \/ \E r \in 1..MaxRecords : AddRecord(r)
    \/ \E name \in {NameJo, NameAl} : Delete(name)
    \/ \E r \in 1..MaxRecords : RemovePhone(r, PA)
    \/ \E q \in Queries : Find(q)

SpecFind == Init /\ [][NextFind]_vars

(* A book that is changed, dumped and loaded again *)

NextPersist ==
    \/ \E nums \in {<<>>, <<PA, PB>>} :
          \/ NewRecord(MaxRecords, NameJo, nums, DateOk)
          \/ NewRecord(MaxRecords, NameAl, nums, NoDate)
    \/ \E r \in 1..MaxRecords : AddRecord(r)
    \/ \E name \in {NameJo, NameAl} : Delete(name)
    \/ \E r \in 1..MaxRecords : EditPhone(r, PA, PC)
    \/ Dump
    \/ Construct

SpecPersist == Init /\ [][NextPersist]_vars

----------------------------------------------------------------------------
(* Properties of Record *)

Phones(r) == heap[r].phones

\* A string of exactly 10 digits
TenDigits(s) == Len(s) = 10 /\ \A i \in 1..Len(s) : s[i] \in Digits

\* C1: in every reachable state, no two phones of a record have equal value.
C1_NoDuplicatePhones ==
    \A r \in 1..Len(heap) :
        \A i, j \in 1..Len(Phones(r)) : i # j => Phones(r)[i] # Phones(r)[j]

C1_Witness ==
    /\ Len(heap) = 1
    /\ Len(Phones(1)) = 2
    /\ last.op = "edit_phone"
    /\ last.err = "DuplicatePhone"

\* C6: add_phone of a valid number the record already holds raises the
\* duplicate error and leaves the phone list as it was.
C6_AddDuplicateFails ==
    [][\A r \in 1..Len(heap) :
          (/\ last'.op = "add_phone"
           /\ last'.rid = r
           /\ TenDigits(last'.a1)
           /\ Contains(Phones(r), last'.a1))
          => (last'.err = "DuplicatePhone" /\ heap' = heap)]_vars

C6_Witness ==
    /\ Len(heap) = 1
    /\ last.op = "add_phone"
    /\ last.err = "DuplicatePhone"
    /\ Phones(1) = <<PB, PA>>
    /\ last.a1 = PA

\* C7: edit_phone with an old number the record does not hold raises the
\* not-found error whatever the new number is, and leaves the record as it was.
C7_EditAbsentFails ==
    [][\A r \in 1..Len(heap) :
          (/\ last'.op = "edit_phone"
           /\ last'.rid = r
           /\ ~Contains(Phones(r), last'.a1))
          => (last'.err = "NotFound" /\ heap' = heap)]_vars

C7_Witness ==
    /\ Len(heap) = 1
    /\ last.op = "edit_phone"
    /\ last.err = "NotFound"
    /\ last.a2 = BadAlpha
    /\ Len(Phones(1)) = 2
    /\ heap[1].birthday = DateOk

\* C8: edit_phone of a present old number to a valid absent new number puts
\* new where old was, keeps the length and every other phone in place, and
\* afterwards find_phone(old) is None and find_phone(new) is the phone.
C8_EditReplacesInPlace ==
    [][\A r \in 1..Len(heap) :
          (/\ last'.op = "edit_phone"
           /\ last'.rid = r
           /\ Contains(Phones(r), last'.a1)
           /\ TenDigits(last'.a2)
           /\ ~Contains(Phones(r), last'.a2))
          => (/\ last'.err = "None"
              /\ Len(heap') = Len(heap)
              /\ Len(heap'[r].phones) = Len(Phones(r))
              /\ \A i \in 1..Len(Phones(r)) :
                    heap'[r].phones[i] = IF Phones(r)[i] = last'.a1
                                         THEN last'.a2 ELSE Phones(r)[i]
              /\ find_phone(heap'[r].phones, last'.a1) = <<>>
              /\ find_phone(heap'[r].phones, last'.a2) = <<last'.a2>>)]_vars

C8_Witness ==
    /\ Len(heap) = 1
    /\ last.op = "edit_phone"
    /\ last.err = "None"
    /\ last.a1 = PA
    /\ Phones(1) = <<PC, PB>>

----------------------------------------------------------------------------
(* Properties of AddressBook *)

RECURSIVE Flatten(_)
Flatten(bs) == IF bs = <<>> THEN <<>> ELSE Head(bs) \o Flatten(Tail(bs))

Count(xs, x) == Cardinality({k \in 1..Len(xs) : xs[k] = x})

NameMatches(rid, q) == IsSubstring(lower(q), lower(heap[rid].name))

PhoneMatches(rid, q) ==
    {j \in 1..Len(Phones(rid)) : IsSubstring(q, Phones(rid)[j])}

\* C2: a book constructed on the file that dump() wrote has the keys of the
\* dumped book in the same order, each record with the same name, phones (in
\* order) and birthday, and the same counter.
C2_RoundTrip ==
    (last.op = "AddressBook" /\ Len(file) > 0)
    => (/\ record_id = dumped.record_id
        /\ Len(data) = Len(dumped.book)
        /\ \A i \in 1..Len(data) : BookView(data, heap)[i] = dumped.book[i])

C2_Witness ==
    /\ last.op = "AddressBook"
    /\ Len(file) > 0
    /\ record_id = 3
    /\ Len(data) = 2
    /\ Phones(data[1].rid) = <<PC, PB>>
    /\ heap[data[1].rid].birthday = DateOk
    /\ Phones(data[2].rid) = <<>>
    /\ heap[data[2].rid].birthday = NoDate

\* C3: a fully consumed iterator(batch_size) over a book of n records that
\* did not change meanwhile gave ceil(n / batch_size) batches, all of length
\* batch_size but the last, which has 1..batch_size records, and together
\* they are the book's records in insertion order, each once.
C3_Batches ==
    (gen.st = "done" /\ ~touched)
    => LET n == Len(data)
           out == gen.out
           flat == Flatten(out)
       IN /\ Len(out) = (n + gen.bs - 1) \div gen.bs
          /\ \A k \in 1..(Len(out) - 1) : Len(out[k]) = gen.bs
          /\ Len(out) > 0 => Len(out[Len(out)]) \in 1..gen.bs
          /\ Len(flat) = n
          /\ \A k \in 1..n : flat[k] = data[k].rid
          /\ \A k, m \in 1..n : k # m => flat[k] # flat[m]

C3_Witness ==
    /\ gen.st = "done"
    /\ ~touched
    /\ Len(data) = 3
    /\ gen.bs = 2
    /\ Len(gen.out) = 2

\* C4: the batches of an iterator() call are the records that were in the
\* book when iterator() was called, whatever add_record or delete did after
\* the call.
C4_SnapshotAtCall ==
    gen.st = "done"
    => (/\ Len(Flatten(gen.out)) = Len(atCall)
        /\ \A k \in 1..Len(atCall) : Flatten(gen.out)[k] = atCall[k])

\* C5: find(query) returns a record of the book exactly when the query is a
\* case-insensitive substring of its name or a substring of one of its
\* phones, returns nothing else, and leaves the book as it was.
C5_FindMatches ==
    /\ [](last.op = "find"
          => /\ \A i \in 1..Len(data) :
                   Contains(last.recs, data[i].rid)
                   <=> (NameMatches(data[i].rid, last.a1)
                        \/ PhoneMatches(data[i].rid, last.a1) # {})
             /\ \A k \in 1..Len(last.recs) : Contains(Values(data), last.recs[k]))
    /\ [][last'.op = "find" => UNCHANGED <<heap, record_id, data, file>>]_vars

C5_Witness ==
    /\ last.op = "find"
    /\ last.a1 = QJo
    /\ Len(data) = 2
    /\ Len(last.recs) = 1
    /\ heap[last.recs[1]].name = NameJo

\* C10: a record is in find(query)'s list once if the query is a
\* case-insensitive substring of its name, plus once for each of its phones
\* that contains the query; the records come in the mapping's order.
C10_FindMultiplicity ==
    last.op = "find"
    => /\ \A i \in 1..Len(data) :
             Count(last.recs, data[i].rid)
             = (IF NameMatches(data[i].rid, last.a1) THEN 1 ELSE 0)
               + Cardinality(PhoneMatches(data[i].rid, last.a1))
       /\ \A k \in 1..Len(last.recs) : Contains(Values(data), last.recs[k])
       /\ \A k, m \in 1..Len(last.recs) :
             \A i, j \in 1..Len(data) :
                (k < m /\ data[i].rid = last.recs[k] /\ data[j].rid = last.recs[m])
                => i <= j

C10_Witness ==
    /\ last.op = "find"
    /\ last.a1 = QEmpty
    /\ Len(data) = 2
    /\ Len(Phones(data[1].rid)) = 2
    /\ Count(last.recs, data[1].rid) = 3
    /\ Count(last.recs, data[2].rid) = 1

====
